---------------------------- MODULE Spec2Model ----------------------------
(***************************************************************************)
(* Model of gcal-readonly-mcp's account management and OAuth flow          *)
(* (src/auth.go, src/config.go).                                           *)
(*                                                                         *)
(* One CLI process runs at a time (main dispatches one of --add-account /  *)
(* --remove-account and exits); the file system (credentials.json,         *)
(* config.json, tokens/<name>.json) persists between processes.            *)
(*                                                                         *)
(* Inside PerformOAuthFlow the goroutines are: the coordinator (the        *)
(* function body), the server goroutine (ListenAndServe), one handler      *)
(* goroutine per request to /callback, and the manual reader.              *)
(*                                                                         *)
(* Go channel semantics as implemented by the runtime: a buffered channel  *)
(* is a FIFO buffer followed by a FIFO queue of blocked senders; a select  *)
(* that finds several cases ready picks any of them; a select that finds   *)
(* none ready parks, and the first send (or timer expiry) that happens     *)
(* afterwards is handed to it directly.                                    *)
(*                                                                         *)
(* net/http: ListenAndServe returns ErrServerClosed without binding once   *)
(* Close or Shutdown was called; Close and Shutdown both close the         *)
(* listener at once; neither stops a handler goroutine that is blocked.    *)
(***************************************************************************)
EXTENDS Naturals, Sequences, FiniteSets

\* ---------------------------------------------------------------- bounds
MaxCallbacks == 2      \* requests that hit /callback during one session
MaxOps == 3            \* CLI invocations in one behaviour

\* ------------------------------------------------------ program constants
ChanCap == 1           \* make(chan string, 1), make(chan error, 1)

\* ------------------------------------------------------------- value sets
Accounts == {"work", "home"}
Codes == {"c1", "c2"}
NoCode == "nocode"             \* r.URL.Query().Get("code") == ""
EmptyLine == "empty"           \* strings.TrimSpace(input) == ""
ReadErr == "readerr"           \* reader.ReadString returned an error
NoFile == "nofile"
Corrupt == "corrupt"           \* a truncated or partly written file
NotListed == "notlisted"
None == "none"

Tok(c) == IF c = "c1" THEN "t1" ELSE "t2"   \* the token issued for code c
Tokens == {Tok(c) : c \in Codes}
Email(a) == IF a = "work" THEN "w@x" ELSE "h@x"   \* cal.Id of the account
Callbacks == 1..MaxCallbacks
CbId(k) == <<"cb1", "cb2", "cb3", "cb4">>[k]   \* the k-th request's handler
CallbackSenders == {CbId(k) : k \in Callbacks}
Manual == "manual"
Server == "server"

VARIABLES
  credentials,   \* credentials.json: "absent", "invalid", "valid"
  tokenFile,     \* tokens/<name>.json : NoFile, Corrupt or a token
  config,        \* config.json : account -> NotListed or its email
  dirs,          \* directories that exist, among "config" and "config/tokens"
  nops,          \* CLI invocations finished
  op,            \* the running invocation: [kind, name, snap, res]
  pc,            \* position of the main goroutine
  codeChan,      \* buffer of codeChan
  codeSendq,     \* senders blocked on codeChan <- v
  errChan,       \* buffer of errChan
  errSendq,      \* senders blocked on errChan <- e
  serverReady,   \* buffer of serverReady
  srv,           \* server goroutine: none, spawned, ready, serving, exited
  listener,      \* the session's socket on :8089: none, open, closed
  inShutdown,    \* http.Server's flag set by Close and Shutdown
  ncb,           \* requests to /callback so far
  reader,        \* manual reader goroutine: none, reading, done
  consumed,      \* what the select received: [kind, val, who, pending]
  code,          \* local variable code
  token,         \* local variable token
  result,        \* what PerformOAuthFlow returned
  \* history variables (not read by any guard)
  delivered,     \* completed sends, in order: [who, kind, val]
  nconsumed,     \* receives the coordinator performed
  exchanged,     \* codes passed to config.Exchange, in order
  exch,          \* outcome of the exchange: none, ok, failed
  saves,         \* SaveToken calls in this session
  startTok,      \* tokenFile when the invocation started
  startCfg,      \* config when the invocation started
  startDirs,     \* dirs when the invocation started
  \* the wait of one session on a clock (specification SpecTime)
  now,           \* time since PerformOAuthFlow was called, in ticks of 100 ms
  tpc,           \* coordinator: idle, start, sleeping, beforeSelect, parked, done
  wakeAt,        \* when time.Sleep ends
  armed,         \* evaluations of time.After
  armedAt,       \* when the select was entered
  deadline,      \* when the timer of time.After expires
  nevents,       \* events without a signal seen while waiting
  delay,         \* ticks lost to scheduling and openBrowser before the select
  tres,          \* how the wait ended: none, timeout, code, err
  \* the token files under SaveToken and LoadToken (specification SpecStore)
  sfile,         \* account -> the token file: whether it exists and its content
  wpc,           \* SaveToken: idle, marshalled, writing
  wacct,         \* the account SaveToken writes
  wtok,          \* the token SaveToken was given
  wdata,         \* the bytes json.MarshalIndent produced
  wold,          \* the file as it was when SaveToken was called
  wres,          \* result of the last SaveToken
  lres,          \* the last LoadToken: what it read and what it returned
  lastSaved,     \* account -> token of a completed SaveToken not written over since
  sops,          \* SaveToken, LoadToken and os.Remove calls so far
  \* two sessions for two accounts at once (specification SpecTwo)
  port,          \* the session whose server holds port 8089, or None
  xpc,           \* session -> idle, started, parked, exchange, returned
  xsrv,          \* session -> its server: none, spawned, serving, failed, closed
  xcodeChan,     \* session -> its codeChan
  xerrChan,      \* session -> its errChan
  xconsent,      \* session -> the user consented at the URL this session printed
  xtyped,        \* session -> a line was typed at this session's terminal
  xconsumed,     \* session -> the code its select received, or NoCode
  xused,         \* codes the provider has exchanged
  xfile,         \* account -> the token in its file, or NoFile
  xres,          \* session -> result of PerformOAuthFlow, or None
  \* the MCP server process and its tool calls (specification SpecServe)
  oauthScopes,   \* the package variable oauthScopes
  scred,         \* credentials.json: absent, invalid, valid
  tfile,         \* account -> the token in its file, NoFile or Corrupt
  listed,        \* the accounts config.json lists
  svc,           \* account -> the last GetCalendarService call for it
  tout,          \* the last tool call: tool, error, the list in its output
  vops,          \* operations so far
  \* two account-management processes at once (specification SpecCfg)
  cfile,         \* the accounts config.json lists
  ppc,           \* process -> idle, loaded, flow, save, done
  pop,           \* process -> its command: kind and account name
  psnap,         \* process -> the Config it got from LoadConfig
  pres           \* process -> what its command returned, or None

fsVars == <<credentials, tokenFile, config, dirs>>
chanVars == <<codeChan, codeSendq, errChan, errSendq>>
histVars == <<delivered, nconsumed, exchanged, exch, saves, startTok, startCfg, startDirs>>
timeVars == <<now, tpc, wakeAt, armed, armedAt, deadline, nevents, delay, tres>>
storeVars == <<sfile, wpc, wacct, wtok, wdata, wold, wres, lres, lastSaved, sops>>
twoVars == <<port, xpc, xsrv, xcodeChan, xerrChan, xconsent, xtyped, xconsumed,
             xused, xfile, xres>>
serveVars == <<oauthScopes, scred, tfile, listed, svc, tout, vops>>
cfgVars == <<cfile, ppc, pop, psnap, pres>>
sideVars == <<timeVars, storeVars, twoVars, serveVars, cfgVars>>
mainVars == <<credentials, tokenFile, config, dirs, nops, op, pc, codeChan, codeSendq,
          errChan, errSendq, serverReady, srv, listener, inShutdown, ncb,
          reader, consumed, code, token, result, delivered, nconsumed,
          exchanged, exch, saves, startTok, startCfg, startDirs>>
vars == <<mainVars, sideVars>>

NoSignal == [kind |-> None, val |-> None, who |-> None, pending |-> <<>>]
NoOp == [kind |-> None, name |-> None,
         snap |-> [a \in Accounts |-> NotListed], save |-> None, res |-> None]
AllDirs == {"config", "config/tokens"}

\* The goroutine-local state of a process that has not entered PerformOAuthFlow.
SessionReset ==
  /\ codeChan' = <<>> /\ codeSendq' = <<>>
  /\ errChan' = <<>> /\ errSendq' = <<>>
  /\ serverReady' = <<>>
  /\ srv' = None /\ listener' = None /\ inShutdown' = FALSE
  /\ ncb' = 0 /\ reader' = None
  /\ consumed' = NoSignal /\ code' = None /\ token' = None /\ result' = None
  /\ delivered' = <<>> /\ nconsumed' = 0 /\ exchanged' = <<>>
  /\ exch' = None /\ saves' = 0

\* The zero oauth2.Token, a token file that does not exist, the nil error.
ZeroToken ==
  [access |-> "", ttype |-> "", refresh |-> "", expiry |-> "zero",
   mono |-> FALSE, raw |-> ""]
Absent == [exists |-> FALSE, data |-> <<>>]
NoError == [cause |-> "", prefix |-> ""]
NoLoad ==
  [acct |-> "", seen |-> Absent, out |-> [err |-> NoError, tok |-> ZeroToken],
   during |-> FALSE, old |-> ZeroToken, new |-> ZeroToken,
   saved |-> FALSE, want |-> ZeroToken]
Unsaved == [set |-> FALSE, tok |-> ZeroToken]

\* The token-file specification is not running.
StoreIdle ==
  /\ sfile = [a \in Accounts |-> Absent]
  /\ wpc = "idle" /\ wacct = "" /\ wtok = ZeroToken /\ wdata = <<>>
  /\ wold = Absent /\ wres = None /\ lres = NoLoad
  /\ lastSaved = [a \in Accounts |-> Unsaved] /\ sops = 0

Procs == {"p1", "p2"}
NoCommand == [kind |-> None, name |-> ""]

\* The two-process specification is not running.
CfgIdle ==
  /\ cfile = {} /\ ppc = [p \in Procs |-> "idle"]
  /\ pop = [p \in Procs |-> NoCommand] /\ psnap = [p \in Procs |-> {}]
  /\ pres = [p \in Procs |-> None]

\* calendar.CalendarReadonlyScope
CalendarReadonlyScope == "https://www.googleapis.com/auth/calendar.readonly"

NoService == [called |-> FALSE, at |-> NoFile, cred |-> "absent", err |-> "", tok |-> None]
NoOutput == [tool |-> None, err |-> "", list |-> [nil |-> TRUE, n |-> 0], json |-> ""]

\* The server specification is not running.
ServeIdle ==
  /\ oauthScopes = <<CalendarReadonlyScope>>
  /\ scred = "valid" /\ tfile = [a \in Accounts |-> NoFile] /\ listed = {}
  /\ svc = [a \in Accounts |-> NoService] /\ tout = NoOutput /\ vops = 0

\* The two-session specification is not running.
TwoIdle ==
  /\ port = None
  /\ xpc = [s \in Accounts |-> "idle"] /\ xsrv = [s \in Accounts |-> None]
  /\ xcodeChan = [s \in Accounts |-> <<>>] /\ xerrChan = [s \in Accounts |-> <<>>]
  /\ xconsent = [s \in Accounts |-> FALSE] /\ xtyped = [s \in Accounts |-> FALSE]
  /\ xconsumed = [s \in Accounts |-> NoCode] /\ xused = {}
  /\ xfile = [s \in Accounts |-> NoFile] /\ xres = [s \in Accounts |-> None]

\* The clock specification is not running.
TimeIdle ==
  /\ now = 0 /\ tpc = "idle" /\ wakeAt = 0 /\ armed = 0 /\ armedAt = 0
  /\ deadline = 0 /\ nevents = 0 /\ delay = 0 /\ tres = None

MainInit ==
  /\ credentials \in {"absent", "invalid", "valid"}
  /\ tokenFile = [a \in Accounts |-> NoFile]
  /\ config = [a \in Accounts |-> NotListed]
  /\ dirs \in IF credentials = "absent" THEN {{}, {"config"}} ELSE {{"config"}}
  /\ nops = 0
  /\ op = NoOp
  /\ pc = "idle"
  /\ codeChan = <<>> /\ codeSendq = <<>>
  /\ errChan = <<>> /\ errSendq = <<>>
  /\ serverReady = <<>>
  /\ srv = None /\ listener = None /\ inShutdown = FALSE
  /\ ncb = 0 /\ reader = None
  /\ consumed = NoSignal /\ code = None /\ token = None /\ result = None
  /\ delivered = <<>> /\ nconsumed = 0 /\ exchanged = <<>>
  /\ exch = None /\ saves = 0
  /\ startTok = tokenFile /\ startCfg = config /\ startDirs = dirs

Init == MainInit /\ TimeIdle /\ StoreIdle /\ TwoIdle /\ ServeIdle /\ CfgIdle


\* ------------------------------------------------------------ Go channels
\* ch <- v on a buffered channel nobody is parked on: the value enters the
\* buffer when there is room, otherwise the sender queues up and blocks.
ChanSend(buf, q, e) ==
  IF Len(buf) < ChanCap
    THEN [buf |-> Append(buf, e), q |-> q, done |-> TRUE]
    ELSE [buf |-> buf, q |-> Append(q, e), done |-> FALSE]

\* Mutant of ChanRecv: the receiver takes the newest value instead of the oldest.
ChanRecvNewest(buf, q) ==
  IF q = <<>>
    THEN [e |-> buf[Len(buf)], buf |-> SubSeq(buf, 1, Len(buf) - 1), q |-> q,
          woken |-> <<>>]
    ELSE [e |-> q[Len(q)], buf |-> buf, q |-> SubSeq(q, 1, Len(q) - 1),
          woken |-> <<q[Len(q)]>>]

\* <-ch on a non-empty buffered channel: the oldest value leaves the buffer
\* and the longest-blocked sender, if any, completes its send into it.
ChanRecv(buf, q) ==
  IF q = <<>>
    THEN [e |-> Head(buf), buf |-> Tail(buf), q |-> q, woken |-> <<>>]
    ELSE [e |-> Head(buf), buf |-> Append(Tail(buf), Head(q)), q |-> Tail(q),
          woken |-> <<Head(q)>>]

Entry(who, kind, val) == [who |-> who, kind |-> kind, val |-> val]

Blocked(who) ==
  \/ \E i \in 1..Len(codeSendq) : codeSendq[i].who = who
  \/ \E i \in 1..Len(errSendq) : errSendq[i].who = who

\* Mutant of AfterSelect: the timeout branch falls through to the exchange.
AfterSelectTimeoutFallsThrough(kind) ==
  IF kind = "err" THEN "errClose" ELSE "shutdown"

\* The statement the coordinator runs after each case of the select.
AfterSelect(kind) ==
  CASE kind = "code" -> "shutdown"
    [] kind = "err" -> "errClose"
    [] kind = "timeout" -> "timeoutClose"

\* The coordinator's select receives entry e.
Consume(e) ==
  /\ consumed' = [kind |-> e.kind, val |-> e.val, who |-> e.who,
                  pending |-> IF pc = "parked" THEN Append(delivered, e)
                                                   ELSE delivered]
  /\ code' = IF e.kind = "code" THEN e.val ELSE code
  /\ nconsumed' = nconsumed + 1
  /\ pc' = AfterSelect(e.kind)

\* A goroutine whose blocked send just completed moves on.
ReaderAfter(woken) ==
  IF \E i \in 1..Len(woken) : woken[i].who = Manual THEN "done" ELSE reader
SrvAfter(woken) ==
  IF \E i \in 1..Len(woken) : woken[i].who = Server THEN "exited" ELSE srv

\* codeChan <- v by goroutine who. The send completes at once when the
\* coordinator is parked in the select or the buffer has room.
SendCode(who, v) ==
  LET e == Entry(who, "code", v) IN
  IF pc = "parked"
    THEN /\ Consume(e)
         /\ delivered' = Append(delivered, e)
         /\ UNCHANGED chanVars
    ELSE LET s == ChanSend(codeChan, codeSendq, e) IN
         /\ codeChan' = s.buf
         /\ codeSendq' = s.q
         /\ delivered' = IF s.done THEN Append(delivered, e) ELSE delivered
         /\ UNCHANGED <<errChan, errSendq, pc, consumed, code, nconsumed>>

\* errChan <- err by goroutine who.
SendErr(who, v) ==
  LET e == Entry(who, "err", v) IN
  IF pc = "parked"
    THEN /\ Consume(e)
         /\ delivered' = Append(delivered, e)
         /\ UNCHANGED chanVars
    ELSE LET s == ChanSend(errChan, errSendq, e) IN
         /\ errChan' = s.buf
         /\ errSendq' = s.q
         /\ delivered' = IF s.done THEN Append(delivered, e) ELSE delivered
         /\ UNCHANGED <<codeChan, codeSendq, pc, consumed, code, nconsumed>>


\* What SendCode and SendErr assign.
sendVars == <<codeChan, codeSendq, errChan, errSendq, pc, consumed, code,
              nconsumed, delivered>>

\* ----------------------------------------------------- account management
\* Mutant of AccountExists: the lookup in config.Accounts always succeeds.
AccountExistsAlways(cfg, name) == TRUE

\* Mutant of AccountExists: the lookup in config.Accounts never succeeds.
AccountExistsNever(cfg, name) == FALSE

\* _, exists := config.Accounts[name]
AccountExists(cfg, name) == cfg[name] # NotListed

\* SaveConfig: MkdirAll of both directories, then os.WriteFile of config.json.
SaveConfigOutcomes == {"ok", "mkdirErr", "writeErr"}
DirsAfterSaveConfig(d, sc) == IF sc = "mkdirErr" THEN d ELSE AllDirs

\* Mutant of RemoveResult: the error of os.Remove is returned.
RemoveResultReportsRemove(rmErr, sc) ==
  IF rmErr THEN "removeErr" ELSE IF sc = "ok" THEN "ok" ELSE "saveConfigErr"

\* What RemoveAccount returns once the account was found: the error of
\* os.Remove is dropped, the error of SaveConfig is returned.
RemoveResult(rmErr, sc) == IF sc = "ok" THEN "ok" ELSE "saveConfigErr"

\* RemoveAccount(name), run by `--remove-account name`.
RemoveAccount(name) ==
  /\ pc = "idle" /\ nops < MaxOps
  /\ startTok' = tokenFile /\ startCfg' = config /\ startDirs' = dirs
  /\ pc' = "opDone"
  /\ IF ~AccountExists(config, name)
       THEN /\ op' = [kind |-> "remove", name |-> name, snap |-> config,
                      save |-> None, res |-> "notfound"]
            /\ UNCHANGED fsVars
       ELSE \E sc \in SaveConfigOutcomes :
            /\ op' = [kind |-> "remove", name |-> name, snap |-> config,
                      save |-> sc,
                      res |-> RemoveResult(tokenFile[name] = NoFile, sc)]
            /\ tokenFile' = [tokenFile EXCEPT ![name] = NoFile]
            /\ config' = IF sc = "ok" THEN [config EXCEPT ![name] = NotListed]
                                      ELSE config
            /\ dirs' = DirsAfterSaveConfig(dirs, sc)
            /\ UNCHANGED credentials
  /\ UNCHANGED <<nops, codeChan, codeSendq, errChan, errSendq, serverReady,
                 srv, listener, inShutdown, ncb, reader, consumed, code,
                 token, result, delivered, nconsumed, exchanged, exch, saves>>
  /\ UNCHANGED sideVars

\* os.Stat(credPath) reports that credentials.json does not exist.
CredentialsMissing(cred) == cred = "absent"

\* AddAccount(name) up to the call of PerformOAuthFlow.
AddAccountStart(name) ==
  /\ pc = "idle" /\ nops < MaxOps
  /\ startTok' = tokenFile /\ startCfg' = config /\ startDirs' = dirs
  /\ LET r == IF AccountExists(config, name) THEN "exists"
              ELSE IF CredentialsMissing(credentials) THEN "nocred" ELSE None
     IN /\ op' = [kind |-> "add", name |-> name, snap |-> config,
                  save |-> None, res |-> r]
        /\ pc' = IF r = None THEN "flow" ELSE "opDone"
  /\ UNCHANGED <<fsVars, nops, codeChan, codeSendq, errChan, errSendq,
                 serverReady, srv, listener, inShutdown, ncb, reader,
                 consumed, code, token, result, delivered, nconsumed,
                 exchanged, exch, saves>>
  /\ UNCHANGED sideVars

\* AddAccount after PerformOAuthFlow returned.
AddAccountFinish ==
  /\ pc = "flowReturned"
  /\ pc' = "opDone"
  /\ IF result # "ok"
       THEN /\ op' = [op EXCEPT !.res = "flowFailed"]
            /\ UNCHANGED <<config, dirs>>
       ELSE \E sc \in SaveConfigOutcomes :
            /\ op' = [op EXCEPT !.save = sc,
                                !.res = IF sc = "ok" THEN "ok" ELSE "saveConfigErr"]
            /\ config' = IF sc = "ok"
                           THEN [op.snap EXCEPT ![op.name] = Email(op.name)]
                           ELSE config
            /\ dirs' = DirsAfterSaveConfig(dirs, sc)
  /\ UNCHANGED <<credentials, tokenFile, nops, codeChan, codeSendq, errChan,
                 errSendq, serverReady, srv, listener, inShutdown, ncb, reader,
                 consumed, code, token, result, histVars>>
  /\ UNCHANGED sideVars

\* The process exits (os.Exit, log.Fatalf): its goroutines are gone.
Exit ==
  /\ pc = "opDone"
  /\ pc' = "idle"
  /\ nops' = nops + 1
  /\ op' = NoOp
  /\ SessionReset
  /\ startTok' = tokenFile /\ startCfg' = config /\ startDirs' = dirs
  /\ UNCHANGED fsVars
  /\ UNCHANGED sideVars

\* ------------------------------------------------------- PerformOAuthFlow
\* Mutant of GetOAuthConfigOK: a missing credentials file is not an error.
GetOAuthConfigIgnoresMissing(cred) == cred # "invalid"

\* GetOAuthConfig returns a config: credentials.json was read and parsed.
GetOAuthConfigOK(cred) == cred = "valid"

\* The operator deletes credentials.json after AddAccount's os.Stat and before
\* GetOAuthConfig's os.ReadFile.
CredentialsRemoved ==
  /\ pc = "flow" /\ credentials = "valid"
  /\ credentials' = "absent"
  /\ UNCHANGED <<tokenFile, config, dirs, nops, op, pc, chanVars, serverReady,
                 srv, listener, inShutdown, ncb, reader, consumed, code, token,
                 result, histVars>>
  /\ UNCHANGED sideVars

\* GetOAuthConfig, make the channels, go func() { server }.
FlowStart ==
  /\ pc = "flow"
  /\ IF GetOAuthConfigOK(credentials)
       THEN /\ srv' = "spawned" /\ pc' = "waitReady" /\ UNCHANGED result
       ELSE /\ result' = "configErr" /\ pc' = "flowReturned" /\ UNCHANGED srv
  /\ UNCHANGED <<fsVars, nops, op, codeChan, codeSendq, errChan, errSendq,
                 serverReady, listener, inShutdown, ncb, reader, consumed,
                 code, token, histVars>>
  /\ UNCHANGED sideVars

\* Server goroutine: serverReady <- true.
ServerSignalReady ==
  /\ srv = "spawned"
  /\ serverReady' = Append(serverReady, TRUE)
  /\ srv' = "ready"
  /\ UNCHANGED <<fsVars, nops, op, pc, codeChan, codeSendq, errChan, errSendq,
                 listener, inShutdown, ncb, reader, consumed, code, token,
                 result, histVars>>
  /\ UNCHANGED sideVars

\* Server goroutine: server.ListenAndServe() and the report of its error.
ServerListenAndServe ==
  /\ srv = "ready"
  /\ IF inShutdown
       THEN /\ srv' = "exited"
            /\ UNCHANGED <<listener, sendVars>>
       ELSE \/ /\ listener' = "open" /\ srv' = "serving"
               /\ UNCHANGED sendVars
            \/ /\ SendErr(Server, "bind")
               /\ srv' = IF pc # "parked" /\ Len(errChan) >= ChanCap
                           THEN "sending" ELSE "exited"
               /\ UNCHANGED listener
  /\ UNCHANGED <<fsVars, nops, op, serverReady, inShutdown, ncb, reader, token,
                 result, exchanged, exch, saves, startTok, startCfg, startDirs>>
  /\ UNCHANGED sideVars

\* One request to /callback, with ?code=c or without a code.
Callback(c) ==
  /\ listener = "open" /\ ncb < MaxCallbacks
  /\ ncb' = ncb + 1
  /\ IF c = NoCode THEN SendErr(CbId(ncb + 1), "nocode")
                   ELSE SendCode(CbId(ncb + 1), c)
  /\ UNCHANGED <<fsVars, nops, op, serverReady, srv, listener, inShutdown,
                 reader, token, result, exchanged, exch, saves, startTok,
                 startCfg, startDirs>>
  /\ UNCHANGED sideVars

\* Manual reader goroutine: one ReadString, then at most one send.
\* Mutant of ManualDelivers: whatever was read is sent.
ManualDeliversAnything(in) == TRUE

\* err == nil, and the trimmed line is not empty: the line is sent.
ManualDelivers(in) == in \in Codes

ReaderInput(in) ==
  /\ reader = "reading"
  /\ IF ManualDelivers(in)
       THEN /\ SendCode(Manual, in)
            /\ reader' = IF pc # "parked" /\ Len(codeChan) >= ChanCap
                           THEN "sending" ELSE "done"
       ELSE /\ reader' = "done"
            /\ UNCHANGED sendVars
  /\ UNCHANGED <<fsVars, nops, op, serverReady, srv, listener, inShutdown, ncb,
                 token, result, exchanged, exch, saves, startTok, startCfg, startDirs>>
  /\ UNCHANGED sideVars

\* Coordinator: <-serverReady.
CoordRecvReady ==
  /\ pc = "waitReady" /\ serverReady # <<>>
  /\ serverReady' = Tail(serverReady)
  /\ pc' = "sleep"
  /\ UNCHANGED <<fsVars, nops, op, codeChan, codeSendq, errChan, errSendq,
                 srv, listener, inShutdown, ncb, reader, consumed, code, token,
                 result, histVars>>
  /\ UNCHANGED sideVars

\* Coordinator: Sleep, print, openBrowser, go func() { manual reader }.
CoordStartReader ==
  /\ pc = "sleep"
  /\ pc' = "select"
  /\ reader' = "reading"
  /\ UNCHANGED <<fsVars, nops, op, codeChan, codeSendq, errChan, errSendq,
                 serverReady, srv, listener, inShutdown, ncb, consumed, code,
                 token, result, histVars>>
  /\ UNCHANGED sideVars

\* Coordinator: the select finds a case ready, or parks.
CoordSelect ==
  /\ pc = "select"
  /\ \/ /\ codeChan # <<>>
        /\ LET r == ChanRecv(codeChan, codeSendq) IN
           /\ Consume(r.e)
           /\ codeChan' = r.buf /\ codeSendq' = r.q
           /\ delivered' = delivered \o r.woken
           /\ reader' = ReaderAfter(r.woken)
        /\ UNCHANGED <<errChan, errSendq, srv>>
     \/ /\ errChan # <<>>
        /\ LET r == ChanRecv(errChan, errSendq) IN
           /\ Consume(r.e)
           /\ errChan' = r.buf /\ errSendq' = r.q
           /\ delivered' = delivered \o r.woken
           /\ srv' = SrvAfter(r.woken)
        /\ UNCHANGED <<codeChan, codeSendq, reader>>
     \/ /\ codeChan = <<>> /\ errChan = <<>>
        /\ pc' = "parked"
        /\ UNCHANGED <<chanVars, consumed, code, nconsumed, delivered, reader,
                       srv>>
  /\ UNCHANGED <<fsVars, nops, op, serverReady, listener, inShutdown, ncb,
                 token, result, exchanged, exch, saves, startTok, startCfg, startDirs>>
  /\ UNCHANGED sideVars

\* time.After(5 * time.Minute) expires while the select is parked.
\* Mutant of TimerArmed: the select has no timeout case.
TimerNotArmed(p) == FALSE

\* case <-time.After(5 * time.Minute): the timer runs while the select is
\* parked.
TimerArmed(p) == p = "parked"

TimerFire ==
  /\ TimerArmed(pc)
  /\ Consume(Entry("timer", "timeout", None))
  /\ UNCHANGED <<fsVars, nops, op, chanVars, serverReady, srv, listener,
                 inShutdown, ncb, reader, token, result, delivered, exchanged,
                 exch, saves, startTok, startCfg, startDirs>>
  /\ UNCHANGED sideVars

\* Mutant of ListenerAfterClose: the listener is left open.
ListenerLeftOpen(l) == l

\* server.Close() and server.Shutdown(ctx) both close the listening socket
\* before anything else, whatever the state of the connections.
ListenerAfterClose(l) == IF l = "open" THEN "closed" ELSE l

\* Coordinator: case err := <-errChan / case <-time.After: server.Close(); return.
CoordClose ==
  /\ pc \in {"errClose", "timeoutClose"}
  /\ listener' = ListenerAfterClose(listener)
  /\ inShutdown' = TRUE
  /\ srv' = IF srv = "serving" THEN "exited" ELSE srv
  /\ result' = IF pc = "errClose" THEN consumed.val ELSE "timeout"
  /\ pc' = "flowReturned"
  /\ UNCHANGED <<fsVars, nops, op, chanVars, serverReady, ncb, reader,
                 consumed, code, token, histVars>>
  /\ UNCHANGED sideVars

\* Coordinator: server.Shutdown(ctx) with the 2 s context; its error is dropped.
CoordShutdown ==
  /\ pc = "shutdown"
  /\ listener' = ListenerAfterClose(listener)
  /\ inShutdown' = TRUE
  /\ srv' = IF srv = "serving" THEN "exited" ELSE srv
  /\ pc' = "exchange"
  /\ UNCHANGED <<fsVars, nops, op, chanVars, serverReady, ncb, reader,
                 consumed, code, token, result, histVars>>
  /\ UNCHANGED sideVars

\* Mutant of ExchangeNext: a failed exchange still goes on to SaveToken.
ExchangeNextSavesAnyway(ok) == "save"

\* Mutant of ExchangeNext: a failed exchange waits for another code.
ExchangeNextRetries(ok) == IF ok THEN "save" ELSE "select"

\* Where the coordinator goes after config.Exchange.
ExchangeNext(ok) == IF ok THEN "save" ELSE "flowReturned"

\* Coordinator: token, err := config.Exchange(ctx, code).
CoordExchange ==
  /\ pc = "exchange"
  /\ \E ok \in BOOLEAN :
       /\ exch' = IF ok THEN "ok" ELSE "failed"
       /\ token' = IF ok THEN Tok(code) ELSE token
       /\ result' = IF ok THEN result ELSE "exchangeErr"
       /\ pc' = ExchangeNext(ok)
  /\ exchanged' = Append(exchanged, code)
  /\ UNCHANGED <<fsVars, nops, op, chanVars, serverReady, srv, listener,
                 inShutdown, ncb, reader, consumed, code, delivered, nconsumed,
                 saves, startTok, startCfg, startDirs>>
  /\ UNCHANGED sideVars

\* Coordinator: SaveToken(accountName, token): MkdirAll, then os.WriteFile,
\* which may fail after it truncated the file.
\* Mutant of TokenFileAfterSave: an existing token file is not written over.
TokenFileKeptIfPresent(tf, name, tok, out) ==
  IF out = "ok" /\ tf[name] = NoFile THEN [tf EXCEPT ![name] = tok] ELSE tf

\* The token file after SaveToken(name, tok): os.WriteFile creates the file or
\* writes over the one that is there; a failed write can leave it cut short.
TokenFileAfterSave(tf, name, tok, out) ==
  CASE out = "ok" -> [tf EXCEPT ![name] = tok]
    [] out \in {"mkdirErr", "failed"} -> tf
    [] out = "failedPartial" -> [tf EXCEPT ![name] = Corrupt]

CoordSaveToken ==
  /\ pc = "save"
  /\ saves' = saves + 1
  /\ \E out \in {"ok", "mkdirErr", "failed", "failedPartial"} :
       /\ dirs' = IF out = "mkdirErr" THEN dirs ELSE AllDirs
       /\ tokenFile' = TokenFileAfterSave(tokenFile, op.name, token, out)
       /\ result' = IF out = "ok" THEN result ELSE "saveErr"
       /\ pc' = IF out = "ok" THEN "identity" ELSE "flowReturned"
  /\ UNCHANGED <<credentials, config, nops, op, chanVars, serverReady, srv,
                 listener, inShutdown, ncb, reader, consumed, code, token,
                 delivered, nconsumed, exchanged, exch, startTok, startCfg, startDirs>>
  /\ UNCHANGED sideVars

\* Mutant of TokenAfterIdentity: a failed lookup removes the token again.
TokenRolledBack(tf, name, ok) == IF ok THEN tf ELSE [tf EXCEPT ![name] = NoFile]

\* The token files after calendar.NewService and CalendarList.Get("primary"):
\* neither outcome touches them.
TokenAfterIdentity(tf, name, ok) == tf

\* Coordinator: the identity lookup and the return.
CoordIdentity ==
  /\ pc = "identity"
  /\ \E ok \in BOOLEAN :
       /\ result' = IF ok THEN "ok" ELSE "identityErr"
       /\ tokenFile' = TokenAfterIdentity(tokenFile, op.name, ok)
  /\ pc' = "flowReturned"
  /\ UNCHANGED <<credentials, config, dirs, nops, op, chanVars, serverReady, srv,
                 listener, inShutdown, ncb, reader, consumed, code, token,
                 histVars>>
  /\ UNCHANGED sideVars

Next ==
  \/ \E a \in Accounts : AddAccountStart(a)
  \/ \E a \in Accounts : RemoveAccount(a)
  \/ AddAccountFinish
  \/ Exit
  \/ CredentialsRemoved
  \/ FlowStart
  \/ ServerSignalReady
  \/ ServerListenAndServe
  \/ \E c \in Codes \cup {NoCode} : Callback(c)
  \/ \E in \in Codes \cup {EmptyLine, ReadErr} : ReaderInput(in)
  \/ CoordRecvReady
  \/ CoordStartReader
  \/ CoordSelect
  \/ TimerFire
  \/ CoordClose
  \/ CoordShutdown
  \/ CoordExchange
  \/ CoordSaveToken
  \/ CoordIdentity

Spec == Init /\ [][Next]_vars

\* The Go scheduler runs a goroutine that can take a step: the coordinator
\* (receive of serverReady, start of the reader, the select), the server
\* goroutine's send of serverReady, and the runtime timer.  Nothing is assumed
\* of the browser or the operator.
Fairness ==
  /\ WF_vars(ServerSignalReady)
  /\ WF_vars(CoordRecvReady)
  /\ WF_vars(CoordStartReader)
  /\ WF_vars(CoordSelect)
  /\ WF_vars(TimerFire)

SpecLive == Init /\ [][Next]_vars /\ Fairness

TypeOK ==
  /\ credentials \in {"absent", "invalid", "valid"}
  /\ tokenFile \in [Accounts -> Tokens \cup {NoFile, Corrupt}]
  /\ config \in [Accounts -> {Email(a) : a \in Accounts} \cup {NotListed}]
  /\ dirs \subseteq AllDirs
  /\ nops \in 0..MaxOps
  /\ pc \in {"idle", "flow", "waitReady", "sleep", "select", "parked",
             "errClose", "timeoutClose", "shutdown", "exchange", "save",
             "identity", "flowReturned", "opDone"}
  /\ Len(codeChan) <= ChanCap /\ Len(errChan) <= ChanCap
  /\ srv \in {None, "spawned", "ready", "serving", "sending", "exited"}
  /\ listener \in {None, "open", "closed"}
  /\ reader \in {None, "reading", "sending", "done"}
  /\ ncb \in 0..MaxCallbacks

\* ------------------------------------------ the wait of a session, timed
\* One tick is 100 ms.  time.Sleep(100 * time.Millisecond) is one tick and
\* time.After(5 * time.Minute) is 3000 ticks.
SleepTicks == 1
TimeoutTicks == 3000
MaxStartupDelay == 2
MaxEvents == 2

\* Things that happen during the wait and put nothing on a channel: an empty
\* manual line (the reader returns), a line not yet ended (ReadString still
\* blocks), a request to a path other than /callback (404 of the mux).
QuietEvents == {"emptyLine", "partialLine", "otherPath"}

\* time.After(5 * time.Minute), evaluated when the select statement is entered.
ArmDeadline(t) == t + TimeoutTicks

DeadlineExtendedByEvent(d, t) == t + TimeoutTicks

\* The select statement is not in a loop: nothing evaluates time.After again.
DeadlineAfterEvent(d, t) == d

InitTime ==
  /\ MainInit /\ credentials = "valid" /\ StoreIdle /\ TwoIdle /\ ServeIdle /\ CfgIdle
  /\ now = 0 /\ tpc = "start" /\ wakeAt = 0 /\ armed = 0 /\ armedAt = 0
  /\ deadline = 0 /\ nevents = 0 /\ delay = 0 /\ tres = None

\* Scheduling, the server goroutine reaching serverReady, printing and
\* openBrowser take time before the select statement is entered.
TimeDelay ==
  /\ tpc \in {"start", "beforeSelect"}
  /\ delay < MaxStartupDelay
  /\ now' = now + 1 /\ delay' = delay + 1
  /\ UNCHANGED <<tpc, wakeAt, armed, armedAt, deadline, nevents, tres, mainVars, storeVars, twoVars, serveVars, cfgVars>>

\* <-serverReady returned; time.Sleep starts.
TimeSleepStart ==
  /\ tpc = "start"
  /\ tpc' = "sleeping" /\ wakeAt' = now + SleepTicks
  /\ UNCHANGED <<now, armed, armedAt, deadline, nevents, delay, tres, mainVars, storeVars, twoVars, serveVars, cfgVars>>

TimeSleepTick ==
  /\ tpc = "sleeping" /\ now < wakeAt
  /\ now' = now + 1
  /\ UNCHANGED <<tpc, wakeAt, armed, armedAt, deadline, nevents, delay, tres, mainVars, storeVars, twoVars, serveVars, cfgVars>>

TimeWake ==
  /\ tpc = "sleeping" /\ now >= wakeAt
  /\ tpc' = "beforeSelect"
  /\ UNCHANGED <<now, wakeAt, armed, armedAt, deadline, nevents, delay, tres, mainVars, storeVars, twoVars, serveVars, cfgVars>>

\* The select statement is entered with empty channels: time.After is evaluated.
TimeEnterSelect ==
  /\ tpc = "beforeSelect"
  /\ tpc' = "parked" /\ armed' = armed + 1 /\ armedAt' = now
  /\ deadline' = ArmDeadline(now)
  /\ UNCHANGED <<now, wakeAt, nevents, delay, tres, mainVars, storeVars, twoVars, serveVars, cfgVars>>

TimeWaitTick ==
  /\ tpc = "parked" /\ now < deadline
  /\ now' = now + 1
  /\ UNCHANGED <<tpc, wakeAt, armed, armedAt, deadline, nevents, delay, tres, mainVars, storeVars, twoVars, serveVars, cfgVars>>

TimeEvent(ev) ==
  /\ tpc = "parked" /\ ev \in QuietEvents
  /\ nevents < MaxEvents
  /\ nevents' = nevents + 1
  /\ deadline' = DeadlineAfterEvent(deadline, now)
  /\ UNCHANGED <<now, tpc, wakeAt, armed, armedAt, delay, tres, mainVars, storeVars, twoVars, serveVars, cfgVars>>

\* A code (callback or manual line) or an error (a callback without a code)
\* reaches the parked select and ends the wait.
TimeSignal(kind) ==
  /\ tpc = "parked" /\ now <= deadline
  /\ tpc' = "done" /\ tres' = kind
  /\ UNCHANGED <<now, wakeAt, armed, armedAt, deadline, nevents, delay, mainVars, storeVars, twoVars, serveVars, cfgVars>>

\* The timer expires and the select takes the timeout case.
TimeTimeout ==
  /\ tpc = "parked" /\ now >= deadline
  /\ tpc' = "done" /\ tres' = "timeout"
  /\ UNCHANGED <<now, wakeAt, armed, armedAt, deadline, nevents, delay, mainVars, storeVars, twoVars, serveVars, cfgVars>>

NextTime ==
  \/ TimeDelay
  \/ TimeSleepStart
  \/ TimeSleepTick
  \/ TimeWake
  \/ TimeEnterSelect
  \/ TimeWaitTick
  \/ \E ev \in QuietEvents : TimeEvent(ev)
  \/ \E kind \in {"code", "err"} : TimeSignal(kind)
  \/ TimeTimeout

SpecTime == InitTime /\ [][NextTime]_vars

\* ------------------------------------------------ SaveToken and LoadToken
MaxStoreOps == 2

\* oauth2.Token: the four exported fields with their json tags, the monotonic
\* clock reading that a time.Time made by time.Now() carries (Exchange computes
\* Expiry from it), and the unexported raw field holding the rest of the token
\* response.
Times == {"zero", "t1"}
\* Tokens as Exchange returns them (a type, an expiry computed from
\* time.Now(), the raw response) and tokens built by hand (only the strings),
\* each with and without a refresh token.
Credentials ==
  {[access |-> a, ttype |-> "Bearer", refresh |-> r, expiry |-> "t1",
    mono |-> TRUE, raw |-> "id_token"] : a \in {"a1", "a2"}, r \in {"", "r1"}}
  \cup {[ZeroToken EXCEPT !.access = a, !.refresh = r] :
          a \in {"a1", "a2"}, r \in {"", "r1"}}

\* The fields of AccountCredential: what the file is meant to keep.
CredEqual(a, b) ==
  /\ a.access = b.access /\ a.ttype = b.ttype
  /\ a.refresh = b.refresh /\ a.expiry = b.expiry

\* time.Time.MarshalJSON (RFC 3339, wall clock only) and UnmarshalJSON.
FormatTime(t) == IF t = "zero" THEN "0001-01-01T00:00:00Z" ELSE "2026-01-01T10:00:00Z"
ParsesAsTime(v) == v \in {FormatTime(t) : t \in Times}
ParseTime(v) == CHOOSE t \in Times : FormatTime(t) = v

\* A JSON document is a sequence of lexical items, each a pair of strings:
\* the opening brace, the members, the closing brace.
LBrace == <<"{", "">>
RBrace == <<"}", "">>
Member(k, v) == <<k, v>>
OmitEmpty(k, v) == IF v = "" THEN <<>> ELSE <<Member(k, v)>>

MarshalWithoutRefreshToken(c) ==
  <<LBrace, Member("access_token", c.access)>> \o OmitEmpty("token_type", c.ttype)
    \o <<Member("expiry", FormatTime(c.expiry)), RBrace>>

\* json.MarshalIndent(token): access_token always, token_type and
\* refresh_token unless empty (omitempty), expiry always (omitempty does not
\* apply to a struct); unexported fields are not written.
MarshalIndent(c) ==
  <<LBrace, Member("access_token", c.access)>> \o OmitEmpty("token_type", c.ttype)
    \o OmitEmpty("refresh_token", c.refresh)
    \o <<Member("expiry", FormatTime(c.expiry)), RBrace>>

KnownKeys == {"access_token", "token_type", "refresh_token", "expiry"}

\* What json.Unmarshal accepts into an oauth2.Token: a complete object whose
\* expiry, if present, is an RFC 3339 time.
ValidDoc(d) ==
  /\ Len(d) >= 2 /\ d[1] = LBrace /\ d[Len(d)] = RBrace
  /\ \A i \in 2..(Len(d) - 1) :
       /\ d[i][1] \in KnownKeys
       /\ d[i][1] = "expiry" => ParsesAsTime(d[i][2])

SetField(t, m) ==
  IF m[1] = "access_token" THEN [t EXCEPT !.access = m[2]]
  ELSE IF m[1] = "token_type" THEN [t EXCEPT !.ttype = m[2]]
  ELSE IF m[1] = "refresh_token" THEN [t EXCEPT !.refresh = m[2]]
  ELSE IF m[1] = "expiry" THEN [t EXCEPT !.expiry = ParseTime(m[2])]
  ELSE t

RECURSIVE UnmarshalFrom(_, _, _)
UnmarshalFrom(d, i, t) ==
  IF i >= Len(d) THEN t ELSE UnmarshalFrom(d, i + 1, SetField(t, d[i]))

\* json.Unmarshal(data, &token) of a valid document, into a zero Token.
Unmarshal(d) == UnmarshalFrom(d, 2, ZeroToken)

File(d) == [exists |-> TRUE, data |-> d]
Garbage == <<Member("garbage", "")>>

\* The errors LoadToken can return, by what the caller can tell of them:
\* the *PathError of os.ReadFile as it is (os.IsNotExist is true of it), and
\* the json error wrapped with "failed to parse token: ".
IsNotExist(e) == e.cause = "ENOENT" /\ e.prefix = ""
IsParseError(e) == e.prefix = "failed to parse token: "

LoadTokenParsesMissing(f) ==
  IF f.exists /\ ValidDoc(f.data)
  THEN [err |-> NoError, tok |-> Unmarshal(f.data)]
  ELSE [err |-> [cause |-> "syntax", prefix |-> "failed to parse token: "],
        tok |-> ZeroToken]

\* LoadToken on a token file in state f.
LoadTokenResult(f) ==
  IF ~f.exists
  THEN [err |-> [cause |-> "ENOENT", prefix |-> ""], tok |-> ZeroToken]
  ELSE IF ~ValidDoc(f.data)
  THEN [err |-> [cause |-> "syntax", prefix |-> "failed to parse token: "],
        tok |-> ZeroToken]
  ELSE [err |-> NoError, tok |-> Unmarshal(f.data)]

\* Token files as earlier runs can have left them: none, a complete token, a
\* file cut short by a failed write, or something that is not a token.
InitStore ==
  /\ MainInit /\ credentials = "valid" /\ TimeIdle /\ TwoIdle /\ ServeIdle /\ CfgIdle
  /\ sfile \in [Accounts -> {Absent, File(<<>>), File(Garbage),
                             File(MarshalIndent([ZeroToken EXCEPT !.access = "a1"]))}]
  /\ wpc = "idle" /\ wacct = "" /\ wtok = ZeroToken /\ wdata = <<>>
  /\ wold = Absent /\ wres = None /\ lres = NoLoad
  /\ lastSaved = [a \in Accounts |-> Unsaved] /\ sops = 0

\* SaveToken up to os.WriteFile: the path, MarshalIndent, MkdirAll.
SaveTokenStart(a, c) ==
  /\ wpc = "idle" /\ sops < MaxStoreOps
  /\ wpc' = "marshalled" /\ wacct' = a /\ wtok' = c
  /\ wdata' = MarshalIndent(c) /\ wold' = sfile[a]
  /\ wres' = None /\ sops' = sops + 1
  /\ UNCHANGED <<sfile, lres, lastSaved, mainVars, timeVars, twoVars, serveVars, cfgVars>>

\* os.WriteFile opens with O_WRONLY|O_CREATE|O_TRUNC: the file is created or
\* cut to length zero, or the open fails and the file stays as it was.
SaveTokenOpen ==
  /\ wpc = "marshalled"
  /\ \/ /\ wpc' = "writing"
        /\ sfile' = [sfile EXCEPT ![wacct] = File(<<>>)]
        /\ lastSaved' = [lastSaved EXCEPT ![wacct] = Unsaved]
        /\ UNCHANGED wres
     \/ /\ wpc' = "idle" /\ wres' = "failed"
        /\ UNCHANGED <<sfile, lastSaved>>
  /\ UNCHANGED <<wacct, wtok, wdata, wold, lres, sops, mainVars, timeVars, twoVars, serveVars, cfgVars>>

\* os.WriteFile writes: the kernel takes all the remaining bytes or some of
\* them; after the last byte SaveToken returns nil.
SaveTokenWrite ==
  /\ wpc = "writing"
  /\ \E k \in (Len(sfile[wacct].data) + 1)..Len(wdata) :
       /\ sfile' = [sfile EXCEPT ![wacct] = File(SubSeq(wdata, 1, k))]
       /\ IF k = Len(wdata)
          THEN /\ wpc' = "idle" /\ wres' = "ok"
               /\ lastSaved' = [lastSaved EXCEPT ![wacct] = [set |-> TRUE, tok |-> wtok]]
          ELSE UNCHANGED <<wpc, wres, lastSaved>>
  /\ UNCHANGED <<wacct, wtok, wdata, wold, lres, sops, mainVars, timeVars, twoVars, serveVars, cfgVars>>

\* A write fails (disk full): SaveToken returns "failed to write token" and
\* the file keeps what was written so far.
SaveTokenWriteFails ==
  /\ wpc = "writing"
  /\ wpc' = "idle" /\ wres' = "failed"
  /\ UNCHANGED <<sfile, wacct, wtok, wdata, wold, lres, lastSaved, sops, mainVars, timeVars, twoVars, serveVars, cfgVars>>

\* LoadToken(a), by another goroutine or process, at any moment.
LoadToken(a) ==
  /\ sops < MaxStoreOps
  /\ sops' = sops + 1
  /\ lres' = [acct |-> a, seen |-> sfile[a], out |-> LoadTokenResult(sfile[a]),
              during |-> wpc # "idle" /\ wacct = a /\ wold.exists /\ ValidDoc(wold.data),
              old |-> IF wold.exists /\ ValidDoc(wold.data)
                      THEN Unmarshal(wold.data) ELSE ZeroToken,
              new |-> wtok,
              saved |-> lastSaved[a].set, want |-> lastSaved[a].tok]
  /\ UNCHANGED <<sfile, wpc, wacct, wtok, wdata, wold, wres, lastSaved, mainVars, timeVars, twoVars, serveVars, cfgVars>>

\* RemoveAccount's os.Remove of the token file.
RemoveToken(a) ==
  /\ wpc = "idle" /\ sops < MaxStoreOps
  /\ sfile[a].exists
  /\ sops' = sops + 1
  /\ sfile' = [sfile EXCEPT ![a] = Absent]
  /\ lastSaved' = [lastSaved EXCEPT ![a] = Unsaved]
  /\ UNCHANGED <<wpc, wacct, wtok, wdata, wold, wres, lres, mainVars, timeVars, twoVars, serveVars, cfgVars>>

NextStore ==
  \/ \E a \in Accounts, c \in Credentials : SaveTokenStart(a, c)
  \/ SaveTokenOpen
  \/ SaveTokenWrite
  \/ SaveTokenWriteFails
  \/ \E a \in Accounts : LoadToken(a)
  \/ \E a \in Accounts : RemoveToken(a)

SpecStore == InitStore /\ [][NextStore]_vars

\* --------------------------------------------- two sessions, two accounts
\* Two runs of --add-account, one per account name, at the same time.  Each
\* has its own channels, server value and terminal; both use ":8089", the
\* redirect URL http://localhost:8089/callback and the state "state-token".
CodeFor(s) == IF s = "work" THEN "c1" ELSE "c2"   \* issued at the URL s printed

InitTwo ==
  /\ MainInit /\ credentials = "valid" /\ TimeIdle /\ StoreIdle /\ ServeIdle /\ CfgIdle
  /\ TwoIdle

\* PerformOAuthFlow(s) up to the select: channels, mux, server, go func.
TwoStart(s) ==
  /\ xpc[s] = "idle"
  /\ xpc' = [xpc EXCEPT ![s] = "waiting"]
  /\ xsrv' = [xsrv EXCEPT ![s] = "spawned"]
  /\ UNCHANGED <<port, xcodeChan, xerrChan, xconsent, xtyped, xconsumed, xused,
                 xfile, xres, mainVars, timeVars, storeVars, serveVars, cfgVars>>

\* server.ListenAndServe(): binds 8089 if it is free, else fails and the
\* goroutine sends the error on this session's errChan.
TwoListen(s) ==
  /\ xsrv[s] = "spawned"
  /\ IF port = None
     THEN /\ port' = s
          /\ xsrv' = [xsrv EXCEPT ![s] = "serving"]
          /\ UNCHANGED xerrChan
     ELSE /\ xsrv' = [xsrv EXCEPT ![s] = "failed"]
          /\ xerrChan' = [xerrChan EXCEPT ![s] = Append(@, "bind")]
          /\ UNCHANGED port
  /\ UNCHANGED <<xpc, xcodeChan, xconsent, xtyped, xconsumed, xused, xfile, xres,
                 mainVars, timeVars, storeVars, serveVars, cfgVars>>

\* The user consents at the URL session s printed; the browser is sent to
\* localhost:8089/callback?code=...&state=state-token, and the handler of the
\* server that holds the port puts the code on its own codeChan.
TwoCallback(s) ==
  /\ xpc[s] # "idle" /\ ~xconsent[s]
  /\ port # None /\ xsrv[port] = "serving"
  /\ Len(xcodeChan[port]) < ChanCap
  /\ xconsent' = [xconsent EXCEPT ![s] = TRUE]
  /\ xcodeChan' = [xcodeChan EXCEPT ![port] = Append(@, CodeFor(s))]
  /\ UNCHANGED <<port, xpc, xsrv, xerrChan, xtyped, xconsumed, xused, xfile, xres,
                 mainVars, timeVars, storeVars, serveVars, cfgVars>>

\* The user pastes the code shown for session s at the terminal of session s.
TwoManual(s) ==
  /\ xpc[s] = "waiting" /\ ~xtyped[s]
  /\ Len(xcodeChan[s]) < ChanCap
  /\ xtyped' = [xtyped EXCEPT ![s] = TRUE]
  /\ xcodeChan' = [xcodeChan EXCEPT ![s] = Append(@, CodeFor(s))]
  /\ UNCHANGED <<port, xpc, xsrv, xerrChan, xconsent, xconsumed, xused, xfile, xres,
                 mainVars, timeVars, storeVars, serveVars, cfgVars>>

PortAfterClose(s) == IF port = s THEN None ELSE port

\* The select of session s takes a code (and server.Shutdown follows), an
\* error or the timeout (and server.Close follows).
TwoSelect(s) ==
  /\ xpc[s] = "waiting" /\ xsrv[s] \in {"serving", "failed"}
  /\ \/ /\ xcodeChan[s] # <<>>
        /\ xconsumed' = [xconsumed EXCEPT ![s] = Head(xcodeChan[s])]
        /\ xcodeChan' = [xcodeChan EXCEPT ![s] = Tail(@)]
        /\ xpc' = [xpc EXCEPT ![s] = "exchange"]
        /\ UNCHANGED <<xerrChan, xres>>
     \/ /\ xerrChan[s] # <<>>
        /\ xerrChan' = [xerrChan EXCEPT ![s] = Tail(@)]
        /\ xpc' = [xpc EXCEPT ![s] = "returned"]
        /\ xres' = [xres EXCEPT ![s] = Head(xerrChan[s])]
        /\ UNCHANGED <<xcodeChan, xconsumed>>
     \/ /\ xcodeChan[s] = <<>> /\ xerrChan[s] = <<>>
        /\ xpc' = [xpc EXCEPT ![s] = "returned"]
        /\ xres' = [xres EXCEPT ![s] = "timeout"]
        /\ UNCHANGED <<xcodeChan, xerrChan, xconsumed>>
  /\ port' = PortAfterClose(s)
  /\ xsrv' = [xsrv EXCEPT ![s] = "closed"]
  /\ UNCHANGED <<xconsent, xtyped, xused, xfile, mainVars, timeVars, storeVars, serveVars, cfgVars>>

\* config.Exchange of the consumed code, accepted once by the provider, then
\* SaveToken(accountName, token) under the name of this session.
TwoExchangeSave(s) ==
  /\ xpc[s] = "exchange"
  /\ xpc' = [xpc EXCEPT ![s] = "returned"]
  /\ IF xconsumed[s] \in xused
     THEN /\ xres' = [xres EXCEPT ![s] = "exchange"]
          /\ UNCHANGED <<xused, xfile>>
     ELSE /\ xused' = xused \cup {xconsumed[s]}
          /\ xfile' = [xfile EXCEPT ![s] = Tok(xconsumed[s])]
          /\ xres' = [xres EXCEPT ![s] = "ok"]
  /\ UNCHANGED <<port, xsrv, xcodeChan, xerrChan, xconsent, xtyped, xconsumed,
                 mainVars, timeVars, storeVars, serveVars, cfgVars>>

NextTwo ==
  \/ \E s \in Accounts : TwoStart(s)
  \/ \E s \in Accounts : TwoListen(s)
  \/ \E s \in Accounts : TwoCallback(s)
  \/ \E s \in Accounts : TwoManual(s)
  \/ \E s \in Accounts : TwoSelect(s)
  \/ \E s \in Accounts : TwoExchangeSave(s)

SpecTwo == InitTwo /\ [][NextTwo]_vars

\* ------------------------------------------- the MCP server and its tools
\* The server process answers tool calls while runs of --add-account and
\* --remove-account change the files.  oauthScopes stands for the package
\* variable of the process that runs the operation: every process starts with
\* the same value.
MaxServeOps == 3
MaxItems == 1

ListTools == {"list_accounts", "list_calendars", "list_events", "check_availability"}
ServiceTools == {"list_calendars", "list_events", "check_availability"}

ScopesWidened(scopes) == Append(scopes, "https://www.googleapis.com/auth/calendar")

\* google.ConfigFromJSON(data, oauthScopes...): the slice is passed on and put
\* in the Config; nothing writes to it.
ScopesAfterConfigFromJSON(scopes) == scopes

\* A Go slice by what encoding/json tells apart: nil or not, and its length.
NilSlice == [nil |-> TRUE, n |-> 0]
MakeSlice(k) == [nil |-> FALSE, n |-> k]
AppendItems(l, k) == IF k = 0 THEN l ELSE [nil |-> FALSE, n |-> l.n + k]

NilGuardMissing(l) == l

\* if x == nil { x = []T{} } in the handlers.
NilGuard(l) == IF l.nil THEN MakeSlice(0) ELSE l

\* json.Marshal of a slice field without omitempty.
Serialise(l) == IF l.nil THEN "null" ELSE IF l.n = 0 THEN "[]" ELSE "[...]"

GetCalendarServiceCached(cred, tf, a, last) ==
  IF last.called /\ last.err = ""
  THEN [err |-> "", tok |-> last.tok]
  ELSE IF ~GetOAuthConfigOK(cred) THEN [err |-> "config", tok |-> None]
  ELSE IF tf[a] \notin Tokens THEN [err |-> "load", tok |-> None]
  ELSE [err |-> "", tok |-> tf[a]]

\* GetCalendarService(ctx, a): GetOAuthConfig, LoadToken(a), config.Client.
\* last is the previous call for a, which the function knows nothing of.
GetCalendarServiceResult(cred, tf, a, last) ==
  IF ~GetOAuthConfigOK(cred) THEN [err |-> "config", tok |-> None]
  ELSE IF tf[a] \notin Tokens THEN [err |-> "load", tok |-> None]
  ELSE [err |-> "", tok |-> tf[a]]

ServiceCall(cred, tf, a, last) ==
  LET r == GetCalendarServiceResult(cred, tf, a, last) IN
  [called |-> TRUE, at |-> tf[a], cred |-> cred, err |-> r.err, tok |-> r.tok]

\* getTargetAccounts: the account named, or all of ListConfiguredAccounts,
\* in the order the map iteration gives.
Orders(S) ==
  {q \in [1..Cardinality(S) -> S] : \A i, j \in 1..Cardinality(S) : q[i] = q[j] => i = j}
TargetOrders(account, lst) == IF account # "" THEN {<<account>>} ELSE Orders(lst)

\* The loop of GetCalendars, GetEvents and CheckAvailability over the target
\* accounts: the first error ends it; items are appended to a nil slice.
RECURSIVE VisitAccounts(_, _, _, _, _, _, _, _)
VisitAccounts(order, i, cred, tf, svcs, items, failAt, list) ==
  IF i > Len(order) THEN [err |-> "", list |-> list, svcs |-> svcs]
  ELSE LET a == order[i]
           c == ServiceCall(cred, tf, a, svcs[a])
           svcs2 == [svcs EXCEPT ![a] = c]
       IN IF c.err # "" THEN [err |-> "service", list |-> NilSlice, svcs |-> svcs2]
          ELSE IF a = failAt THEN [err |-> "remote", list |-> NilSlice, svcs |-> svcs2]
          ELSE VisitAccounts(order, i + 1, cred, tf, svcs2, items, failAt,
                             AppendItems(list, items[a]))

ToolOutput(tool, err, list) ==
  IF err # ""
  THEN [tool |-> tool, err |-> err, list |-> NilSlice, json |-> ""]
  ELSE [tool |-> tool, err |-> "", list |-> list, json |-> Serialise(list)]

InitServe ==
  /\ MainInit /\ credentials = "valid" /\ TimeIdle /\ StoreIdle /\ TwoIdle /\ CfgIdle
  /\ oauthScopes = <<CalendarReadonlyScope>>
  /\ scred \in {"absent", "invalid", "valid"}
  /\ tfile \in [Accounts -> {NoFile, Tok("c1"), Corrupt}]
  /\ listed \in SUBSET Accounts
  /\ svc = [a \in Accounts |-> NoService] /\ tout = NoOutput /\ vops = 0

\* handleListAccounts.
ListAccountsCall ==
  /\ vops < MaxServeOps /\ vops' = vops + 1
  /\ \E cfgOK \in BOOLEAN :
       tout' = ToolOutput("list_accounts", IF cfgOK THEN "" ELSE "config",
                          NilGuard(MakeSlice(Cardinality(listed))))
  /\ UNCHANGED <<oauthScopes, scred, tfile, listed, svc,
                 mainVars, timeVars, storeVars, twoVars, cfgVars>>

\* handleListCalendars, handleListEvents, handleCheckAvailability for the
\* account given ("" for all accounts).
ListingCall(tool, account) ==
  /\ tool \in ServiceTools
  /\ vops < MaxServeOps /\ vops' = vops + 1
  /\ \E pre \in {"ok", "config", "time"} :
       IF pre # "ok"
       THEN /\ pre = "config" => account = ""
            /\ pre = "time" => tool # "list_calendars"
            /\ tout' = ToolOutput(tool, pre, NilSlice)
            /\ UNCHANGED <<svc, oauthScopes>>
       ELSE \E order \in TargetOrders(account, listed),
               items \in [Accounts -> 0..MaxItems],
               failAt \in Accounts \cup {""} :
              LET r == VisitAccounts(order, 1, scred, tfile, svc, items, failAt, NilSlice)
              IN /\ tout' = ToolOutput(tool, r.err, NilGuard(r.list))
                 /\ svc' = r.svcs
                 /\ oauthScopes' = IF Len(order) > 0
                                   THEN ScopesAfterConfigFromJSON(oauthScopes)
                                   ELSE oauthScopes
  /\ UNCHANGED <<scred, tfile, listed, mainVars, timeVars, storeVars, twoVars, cfgVars>>

\* handleGetEvent for an account.
GetEventCall(a) ==
  /\ vops < MaxServeOps /\ vops' = vops + 1
  /\ \E remoteOK \in BOOLEAN :
       LET c == ServiceCall(scred, tfile, a, svc[a]) IN
       /\ svc' = [svc EXCEPT ![a] = c]
       /\ tout' = ToolOutput("get_event",
                             IF c.err # "" THEN "service"
                             ELSE IF remoteOK THEN "" ELSE "remote", NilSlice)
  /\ oauthScopes' = ScopesAfterConfigFromJSON(oauthScopes)
  /\ UNCHANGED <<scred, tfile, listed, mainVars, timeVars, storeVars, twoVars, cfgVars>>

\* A run of --add-account a that succeeds: GetOAuthConfig, SaveToken, SaveConfig.
ServeAddAccount(a, t) ==
  /\ vops < MaxServeOps /\ vops' = vops + 1
  /\ a \notin listed /\ GetOAuthConfigOK(scred)
  /\ oauthScopes' = ScopesAfterConfigFromJSON(oauthScopes)
  /\ tfile' = [tfile EXCEPT ![a] = t]
  /\ listed' = listed \cup {a}
  /\ UNCHANGED <<scred, svc, tout, mainVars, timeVars, storeVars, twoVars, cfgVars>>

\* A run of --remove-account a: os.Remove of the token file, SaveConfig.
ServeRemoveAccount(a) ==
  /\ vops < MaxServeOps /\ vops' = vops + 1
  /\ a \in listed
  /\ tfile' = [tfile EXCEPT ![a] = NoFile]
  /\ listed' = listed \ {a}
  /\ UNCHANGED <<oauthScopes, scred, svc, tout, mainVars, timeVars, storeVars, twoVars, cfgVars>>

NextServe ==
  \/ ListAccountsCall
  \/ \E tool \in ServiceTools, account \in Accounts \cup {""} : ListingCall(tool, account)
  \/ \E a \in Accounts : GetEventCall(a)
  \/ \E a \in Accounts, t \in Tokens : ServeAddAccount(a, t)
  \/ \E a \in Accounts : ServeRemoveAccount(a)

SpecServe == InitServe /\ [][NextServe]_vars

\* ------------------------------------- two account commands, two processes
\* Two runs of the program, each with --add-account or --remove-account, for
\* different account names.  Each holds the Config it read until it writes it.
InitCfg ==
  /\ MainInit /\ credentials = "valid" /\ TimeIdle /\ StoreIdle /\ TwoIdle /\ ServeIdle
  /\ cfile \in SUBSET Accounts
  /\ ppc = [p \in Procs |-> "idle"] /\ pop = [p \in Procs |-> NoCommand]
  /\ psnap = [p \in Procs |-> {}] /\ pres = [p \in Procs |-> None]

\* The Config a command writes: its own snapshot with its own change.
ConfigToSave(snap, cmd) ==
  IF cmd.kind = "add" THEN snap \cup {cmd.name} ELSE snap \ {cmd.name}

\* AddAccount or RemoveAccount up to the end of its checks: LoadConfig and
\* the lookup of the name.
CfgLoad(p, kind, name) ==
  /\ ppc[p] = "idle"
  /\ \A q \in Procs \ {p} : pop[q].name # name
  /\ pop' = [pop EXCEPT ![p] = [kind |-> kind, name |-> name]]
  /\ psnap' = [psnap EXCEPT ![p] = cfile]
  /\ IF kind = "add" /\ name \in cfile
     THEN /\ ppc' = [ppc EXCEPT ![p] = "done"]
          /\ pres' = [pres EXCEPT ![p] = "exists"]
     ELSE IF kind = "remove" /\ name \notin cfile
     THEN /\ ppc' = [ppc EXCEPT ![p] = "done"]
          /\ pres' = [pres EXCEPT ![p] = "notfound"]
     ELSE /\ ppc' = [ppc EXCEPT ![p] = IF kind = "add" THEN "flow" ELSE "save"]
          /\ UNCHANGED pres
  /\ UNCHANGED <<cfile, mainVars, timeVars, storeVars, twoVars, serveVars>>

\* PerformOAuthFlow returns to AddAccount, with the email or with an error.
CfgFlowReturns(p) ==
  /\ ppc[p] = "flow"
  /\ \E ok \in BOOLEAN :
       IF ok THEN /\ ppc' = [ppc EXCEPT ![p] = "save"]
                  /\ UNCHANGED pres
             ELSE /\ ppc' = [ppc EXCEPT ![p] = "done"]
                  /\ pres' = [pres EXCEPT ![p] = "flowFailed"]
  /\ UNCHANGED <<cfile, pop, psnap, mainVars, timeVars, storeVars, twoVars, serveVars>>

\* SaveConfig(config) with the Config the command holds.
CfgSave(p) ==
  /\ ppc[p] = "save"
  /\ ppc' = [ppc EXCEPT ![p] = "done"]
  /\ \E ok \in BOOLEAN :
       IF ok THEN /\ cfile' = ConfigToSave(psnap[p], pop[p])
                  /\ pres' = [pres EXCEPT ![p] = "ok"]
             ELSE /\ pres' = [pres EXCEPT ![p] = "saveConfigErr"]
                  /\ UNCHANGED cfile
  /\ UNCHANGED <<pop, psnap, mainVars, timeVars, storeVars, twoVars, serveVars>>

NextCfg ==
  \/ \E p \in Procs, kind \in {"add", "remove"}, name \in Accounts : CfgLoad(p, kind, name)
  \/ \E p \in Procs : CfgFlowReturns(p)
  \/ \E p \in Procs : CfgSave(p)

SpecCfg == InitCfg /\ [][NextCfg]_vars

\* ================================================================ claims
IsCode(e) == e.kind = "code"
CodesDelivered == SelectSeq(delivered, IsCode)
Returned == pc \in {"flowReturned", "opDone"}
\* Every send of the session, completed or still blocked.
Writes ==
  {delivered[i] : i \in 1..Len(delivered)}
    \cup {codeSendq[i] : i \in 1..Len(codeSendq)}
    \cup {errSendq[i] : i \in 1..Len(errSendq)}

\* C1: when the callback handler and the manual reader both deliver a code,
\* the code passed to config.Exchange is the one whose send completed first;
\* the other code is never exchanged, and the step that delivers a code after
\* one was consumed changes neither the result nor the error channel nor
\* anything else the coordinator holds.
C1_FirstDeliveredCodeIsExchanged ==
  /\ [](/\ \A i \in 1..Len(exchanged) :
              /\ CodesDelivered # <<>>
              /\ exchanged[i] = CodesDelivered[1].val
        /\ consumed.kind = "code" =>
              /\ CodesDelivered # <<>>
              /\ consumed.who = CodesDelivered[1].who
              /\ consumed.val = CodesDelivered[1].val)
  /\ [][(consumed.kind = "code" /\ Len(CodesDelivered') > Len(CodesDelivered))
          => /\ result' = result /\ consumed' = consumed /\ code' = code
             /\ exchanged' = exchanged /\ token' = token /\ pc' = pc
             /\ errChan' = errChan /\ errSendq' = errSendq]_vars

C1_Witness ==
  /\ pc = "flowReturned" /\ result = "ok"
  /\ Len(CodesDelivered) = 2
  /\ {CodesDelivered[1].who, CodesDelivered[2].who} = {CbId(1), Manual}
  /\ CodesDelivered[1].val # CodesDelivered[2].val
  /\ exchanged = <<CodesDelivered[1].val>>

\* C2: whenever PerformOAuthFlow has returned after starting the server
\* goroutine, the session's listener does not hold port 8089 (and the server
\* can no longer bind it).
C2_PortReleasedOnReturn ==
  (Returned /\ srv # None) => (listener # "open" /\ inShutdown)

C2_Witness ==
  pc = "flowReturned" /\ listener = "closed" /\ result = "exchangeErr"

\* C3: SaveToken is called only after the session's exchange succeeded; after
\* a failed exchange the flow has returned the exchange error and the token
\* files and config.json are as they were when the call started.
C3_NoSaveWithoutExchange ==
  /\ saves > 0 => exch = "ok"
  /\ exch = "failed" =>
       /\ Returned /\ result = "exchangeErr"
       /\ tokenFile = startTok /\ config = startCfg

C3_Witness ==
  /\ exch = "failed" /\ pc = "opDone"
  /\ tokenFile[op.name] \in Tokens

\* C4: when the timer ends the wait (nothing was delivered before it fired),
\* PerformOAuthFlow returns the timeout error, attempts no exchange, writes no
\* token, and on return the port is free.
C4_TimeoutReturnsCleanly ==
  consumed.kind = "timeout" =>
    /\ consumed.pending = <<Entry("timer", "timeout", None)>>
    /\ pc \in {"timeoutClose", "flowReturned", "opDone"}
    /\ exchanged = <<>> /\ saves = 0 /\ tokenFile = startTok
    /\ Returned => (result = "timeout" /\ listener # "open" /\ inShutdown)

C4_Witness ==
  /\ consumed.kind = "timeout" /\ pc = "flowReturned" /\ listener = "closed"

\* C5 (as claimed): no sender is ever blocked on its send.
C5_NoSenderEverBlocks ==
  codeSendq = <<>> /\ errSendq = <<>>

\* C6 (as claimed): between invocations, an account has a token file iff it
\* is listed in config.json.
C6_TokenFileIffListed ==
  pc = "idle" =>
    \A a \in Accounts : (tokenFile[a] # NoFile) <=> (config[a] # NotListed)

\* C7: when the identity lookup fails after SaveToken succeeded, the flow
\* returns an error and the token file holds the token written in this session.
C7_TokenKeptOnIdentityFailure ==
  result = "identityErr" =>
    /\ Returned /\ saves = 1 /\ token \in Tokens
    /\ tokenFile[op.name] = token
    /\ pc = "opDone" => op.res = "flowFailed"

C7_Witness ==
  result = "identityErr" /\ pc = "opDone" /\ startTok[op.name] = NoFile

\* C8: the coordinator receives at most one signal and calls the exchange at
\* most once; once the flow has returned after the server was started it has
\* received exactly one, whatever was delivered afterwards.
C8_OneSignalOneExchange ==
  /\ nconsumed <= 1
  /\ Len(exchanged) <= 1
  /\ nconsumed = 1 <=> consumed # NoSignal
  /\ (Returned /\ srv # None) => nconsumed = 1
  /\ Len(exchanged) = 1 => consumed.kind = "code"

C8_Witness ==
  /\ pc = "flowReturned" /\ nconsumed = 1
  /\ codeChan # <<>> /\ errChan # <<>>

\* C9 (as claimed): when a callback error and a code were both delivered before
\* the select received either, the select received the one delivered first.
C9_EarlierOfErrorAndCodeWins ==
  (/\ consumed.kind \in {"code", "err"}
   /\ \E i \in 1..Len(consumed.pending) : consumed.pending[i].kind = "code"
   /\ \E i \in 1..Len(consumed.pending) : consumed.pending[i].val = "nocode")
  => /\ consumed.who = consumed.pending[1].who
     /\ consumed.kind = consumed.pending[1].kind

\* C10 (as claimed): the callback listener forwards at most one outcome, the
\* manual reader at most one code, and the two never write to the same channel.
C10_OneWriteEachOwnChannel ==
  /\ Cardinality({e \in Writes : e.who \in CallbackSenders}) <= 1
  /\ Cardinality({e \in Writes : e.who = Manual}) <= 1
  /\ ~ \E e1, e2 \in Writes :
         e1.who = Manual /\ e2.who \in CallbackSenders /\ e1.kind = e2.kind


\* C12 (as claimed): when the session's ListenAndServe failed to bind, the
\* flow returns the listener error, attempts no exchange and saves no token.
C12_BindFailureFailsFlow ==
  (Returned /\ \E i \in 1..Len(delivered) : delivered[i].who = Server)
    => (result = "bind" /\ exchanged = <<>> /\ saves = 0)

\* C14 (as claimed): when the flow returns after receiving a code, no handler
\* of the session is still running.
C14_NoHandlerActiveAtReturn ==
  (Returned /\ consumed.kind = "code")
    => \A w \in CallbackSenders : ~Blocked(w)


\* RemoveAccount has returned for a name whose state at the call was (c, t).
RemoveDone == op.kind = "remove" /\ pc = "opDone"
NeverConfigured ==
  startCfg[op.name] = NotListed /\ startTok[op.name] = NoFile

\* C18 (as claimed): RemoveAccount of a name that is neither listed nor has a
\* token file returns success.
C18_RemoveUnknownSucceeds ==
  (RemoveDone /\ NeverConfigured) => op.res = "ok"

\* C18 (amended): RemoveAccount of a name that is neither listed nor has a
\* token file returns the "account not found" error and leaves config.json,
\* the token files and the directories as they were.
C18_RemoveUnknownIsNotFound ==
  (RemoveDone /\ NeverConfigured) =>
    /\ op.res = "notfound"
    /\ config = startCfg /\ tokenFile = startTok /\ dirs = startDirs

C18_Witness ==
  RemoveDone /\ NeverConfigured /\ \E a \in Accounts : config[a] # NotListed

\* C19: RemoveAccount of a listed account whose token file is absent does not
\* report the missing file: it returns what SaveConfig returns, and when
\* SaveConfig succeeds the account is no longer listed.
C19_RemoveWithoutTokenFile ==
  (RemoveDone /\ startCfg[op.name] # NotListed /\ startTok[op.name] = NoFile)
    => /\ op.res = (IF op.save = "ok" THEN "ok" ELSE "saveConfigErr")
       /\ op.save = "ok" => config[op.name] = NotListed
       /\ tokenFile[op.name] = NoFile

C19_Witness ==
  /\ RemoveDone /\ startCfg[op.name] # NotListed /\ startTok[op.name] = NoFile
  /\ op.res = "ok" /\ config[op.name] = NotListed

\* C20: while credentials.json is absent, an AddAccount / PerformOAuthFlow call
\* has started neither the server nor the manual reader and has created no
\* directory and no file, and it returns the configuration error.
C20_NoCredentialsNoEffects ==
  (op.kind = "add" /\ credentials = "absent") =>
    /\ pc \in {"flow", "flowReturned", "opDone"}
    /\ srv = None /\ reader = None /\ listener = None
    /\ exchanged = <<>> /\ saves = 0
    /\ dirs = startDirs /\ tokenFile = startTok /\ config = startCfg
    /\ pc = "flowReturned" => result = "configErr"
    /\ pc = "opDone" =>
         \/ op.res = "exists"
         \/ op.res = "nocred"
         \/ op.res = "flowFailed" /\ result = "configErr"

C20_Witness ==
  /\ op.kind = "add" /\ credentials = "absent" /\ dirs = {}
  /\ pc = "opDone" /\ op.res = "nocred"

\* C13 as stated: time.After is evaluated once, no event evaluates it again,
\* and when no signal is consumed the wait ends at most 5 minutes after the
\* session started (now counts from the call of PerformOAuthFlow).
C13_WaitEndsFiveMinutesAfterStart ==
  /\ armed <= 1
  /\ armed = 1 => deadline = armedAt + TimeoutTicks
  /\ tpc = "parked" => now <= TimeoutTicks
  /\ tres = "timeout" => now <= TimeoutTicks

\* C13 amended: time.After is evaluated once, when the select statement is
\* entered, at least the 100 ms of time.Sleep after the session started; no
\* event moves the deadline; the wait ends at most 5 minutes after the select
\* statement was entered, and a timeout ends it exactly then.
C13_DeadlineArmedOnceAtSelect ==
  /\ armed <= 1
  /\ armed = 1 => (deadline = armedAt + TimeoutTicks /\ armedAt >= SleepTicks)
  /\ tpc = "parked" => now <= armedAt + TimeoutTicks
  /\ tres = "timeout" => now = armedAt + TimeoutTicks

C13_Witness ==
  /\ tres = "timeout" /\ nevents >= 1
  /\ now = armedAt + TimeoutTicks /\ now > TimeoutTicks

Loaded == lres.acct # ""

\* C15: a LoadToken that runs while SaveToken overwrites the account's valid
\* token file returns the complete old token or the complete new one, never
\* an error from an empty or partly written file.
C15_LoadDuringSaveSeesOldOrNew ==
  (Loaded /\ lres.during) =>
     /\ lres.out.err = NoError
     /\ CredEqual(lres.out.tok, lres.old) \/ CredEqual(lres.out.tok, lres.new)

\* C16: a LoadToken of an account whose file was last written by a completed
\* SaveToken(a, c) returns, without error, a token equal to c in access token,
\* token type, refresh token and expiry.
C16_SaveThenLoadRoundTrip ==
  (Loaded /\ lres.saved) =>
     /\ lres.out.err = NoError
     /\ CredEqual(lres.out.tok, lres.want)

C16_Witness ==
  /\ Loaded /\ lres.saved /\ lres.out.err = NoError
  /\ lres.want.access = "a2" /\ lres.want.refresh = "r1" /\ lres.want.mono
  /\ lres.out.tok.refresh = "r1" /\ lres.out.tok.expiry = "t1"

\* C17: LoadToken of an account without a token file returns the not-found
\* error and not a parse error; of a file that is not valid JSON, the parse
\* error and not the not-found error; no error is both.
C17_NotFoundAndParseErrorDistinct ==
  Loaded =>
     /\ ~lres.seen.exists =>
          (IsNotExist(lres.out.err) /\ ~IsParseError(lres.out.err))
     /\ (lres.seen.exists /\ ~ValidDoc(lres.seen.data)) =>
          (IsParseError(lres.out.err) /\ ~IsNotExist(lres.out.err))

C17_Witness ==
  /\ Loaded /\ ~lres.seen.exists /\ IsNotExist(lres.out.err)
  /\ \E a \in Accounts : sfile[a] = File(Garbage)

\* C11: two overlapping sessions for different account names do not
\* interfere: a session consumes only the code issued for it, and the token
\* in an account's file comes from the code issued for that account's session.
C11_SessionsDoNotInterfere ==
  \A s \in Accounts :
     /\ xconsumed[s] \in {NoCode, CodeFor(s)}
     /\ xfile[s] \in {NoFile, Tok(CodeFor(s))}

AddRerun == op.kind = "add" /\ startTok[op.name] \in Tokens

\* C21 as stated: an authorization run again for an account that has a token
\* file is never refused for want of a remove, and when it succeeds the file
\* holds the token of the new exchange.
C21_RerunNeedsNoRemove ==
  AddRerun =>
     /\ pc = "opDone" => op.res # "exists"
     /\ (Returned /\ result = "ok") => tokenFile[op.name] = Tok(code)

\* C21 amended: AddAccount refuses the name while config.json lists it and
\* then leaves the token file as it was; for a name that has a token file but
\* is not listed the flow runs, and when it succeeds the file holds the token
\* of the new exchange.
C21_RerunOverwritesWhenUnlisted ==
  AddRerun =>
     /\ startCfg[op.name] # NotListed =>
          (pc = "opDone" /\ op.res = "exists" /\ tokenFile = startTok)
     /\ (startCfg[op.name] = NotListed /\ pc = "opDone") => op.res # "exists"
     /\ (startCfg[op.name] = NotListed /\ Returned /\ result = "ok") =>
          (tokenFile[op.name] = Tok(code) /\ exchanged = <<code>>)

C21_Witness ==
  /\ AddRerun /\ startCfg[op.name] = NotListed /\ Returned /\ result = "ok"
  /\ startTok[op.name] = Tok("c1") /\ tokenFile[op.name] = Tok("c2")

\* C22: in every reachable state the list of requested scopes holds the
\* calendar read-only scope and nothing else, whatever operations have run.
C22_ScopesOnlyReadonly == oauthScopes = <<CalendarReadonlyScope>>

C22_Witness ==
  /\ oauthScopes = <<CalendarReadonlyScope>> /\ vops >= 3
  /\ \E a \in Accounts : svc[a].called /\ svc[a].err = "" /\ tfile[a] = Tok("c2")
  /\ tout.tool = "get_event"

\* C23: every GetCalendarService call reads the token file as it is at the
\* call: with a token in the file it uses that token, with no file or an
\* unreadable one it fails with the load error, whatever earlier calls got.
C23_ServiceLoadsTokenAtCall ==
  \A a \in Accounts :
     (svc[a].called /\ svc[a].cred = "valid") =>
        /\ svc[a].at \in Tokens => (svc[a].err = "" /\ svc[a].tok = svc[a].at)
        /\ svc[a].at \notin Tokens => (svc[a].err = "load" /\ svc[a].tok = None)

C23_Witness ==
  \E a, b \in Accounts :
     /\ a # b
     /\ svc[a].called /\ svc[a].err = "" /\ svc[a].tok = Tok("c2")
     /\ svc[b].called /\ svc[b].at = NoFile /\ svc[b].err = "load"

\* C24: a list-returning tool handler that succeeds puts a non-nil slice in
\* its output, so the list serialises as an array, also when it is empty.
C24_ListOutputsNeverNull ==
  (tout.tool \in ListTools /\ tout.err = "") =>
     (~tout.list.nil /\ tout.json # "null")

C24_Witness ==
  /\ tout.tool = "check_availability" /\ tout.err = ""
  /\ tout.list.n = 0 /\ tout.json = "[]"
  /\ \E a \in Accounts : svc[a].called /\ svc[a].err = ""

Waiting == pc \in {"waitReady", "sleep", "select", "parked"}

\* C25: with the timer and the goroutines scheduled fairly, a session that
\* spawned its server always leaves the select, whether or not a callback or
\* a manual line arrives and whether or not a sender is blocked.
C25_WaitAlwaysEnds == Waiting ~> ~Waiting

C25_Witness ==
  /\ pc = "timeoutClose" /\ consumed.kind = "timeout"
  /\ ncb = 0 /\ reader = "reading" /\ delivered = <<>>

\* C26: when an AddAccount that went through its OAuth flow and another
\* account command for a different name have both finished, config.json
\* shows the change of each one that returned without error.
C26_BothChangesKept ==
  (/\ \A p \in Procs : ppc[p] = "done"
   /\ \E p \in Procs : pop[p].kind = "add" /\ pres[p] = "ok") =>
     \A p \in Procs :
        pres[p] = "ok" =>
           (pop[p].name \in cfile <=> pop[p].kind = "add")

\* C27: AddAccount for a name that config.json lists returns the "already
\* exists" error before the OAuth flow: no server, listener or reader is
\* started, nothing is exchanged or saved, and config.json, the token files
\* and the directories stay as they were.
C27_AddExistingChangesNothing ==
  (op.kind = "add" /\ startCfg[op.name] # NotListed) =>
     /\ pc = "opDone" /\ op.res = "exists"
     /\ srv = None /\ listener = None /\ reader = None /\ ncb = 0
     /\ delivered = <<>> /\ exchanged = <<>> /\ saves = 0
     /\ config = startCfg /\ tokenFile = startTok /\ dirs = startDirs

C27_Witness ==
  /\ op.kind = "add" /\ op.res = "exists" /\ pc = "opDone"
  /\ config[op.name] = Email(op.name) /\ tokenFile[op.name] \in Tokens
  /\ \E a \in Accounts : config[a] = NotListed

ManualEntries(q) == {i \in 1..Len(q) : q[i].who = Manual}
ReaderEndedEmpty ==
  /\ reader = "done"
  /\ ManualEntries(delivered) = {} /\ ManualEntries(consumed.pending) = {}

\* C28 as stated: once the manual reader has ended on an empty line or a read
\* error without delivering, what ends the wait of the session comes from a
\* callback (with a code or without) or is the timeout.
C28_OnlyCallbackOrTimeoutAfterEmptyLine ==
  (ReaderEndedEmpty /\ consumed.kind # None) =>
     \/ consumed.kind \in {"code", "err"} /\ consumed.who \in CallbackSenders
     \/ consumed.kind = "timeout"

\* C28 amended: the manual reader sends only non-empty lines read without
\* error; on an empty line or a read error it ends and sends nothing, which
\* changes nothing for the coordinator; the session is then completed only by
\* a code from a callback, or ended by an error (a callback without a code,
\* the server's error) or by the timeout; the reader reads no further line in
\* that session.
C28_EmptyLineEndsReaderOnly ==
  /\ [](/\ \A i \in ManualEntries(delivered) : delivered[i].val \in Codes
        /\ \A i \in ManualEntries(codeSendq) : codeSendq[i].val \in Codes
        /\ (ReaderEndedEmpty /\ consumed.kind # None) =>
              \/ consumed.kind = "code" /\ consumed.who \in CallbackSenders
              \/ consumed.kind = "err" /\ consumed.who \in CallbackSenders \cup {Server}
              \/ consumed.kind = "timeout")
  /\ [][/\ (reader = "reading" /\ reader' = "done" /\ delivered' = delivered) =>
              (pc' = pc /\ consumed' = consumed /\ result' = result
               /\ codeChan' = codeChan /\ errChan' = errChan)
        /\ (reader = "done" /\ pc' # "idle") =>
              (reader' = "done"
               /\ ManualEntries(delivered') = ManualEntries(delivered)
               /\ ManualEntries(codeSendq') \subseteq ManualEntries(codeSendq))]_vars

C28_Witness ==
  /\ ReaderEndedEmpty /\ consumed.kind = "code" /\ consumed.who \in CallbackSenders
  /\ result = "ok" /\ pc = "flowReturned"

=============================================================================
